---- MODULE Spec2Model ----
(***************************************************************************)
(* A model of castep_outputs/parse_castep_file.py: the run-segmentation    *)
(* and block-dispatch loop of parse_castep_file, with the block handlers   *)
(* it dispatches to.                                                       *)
(*                                                                         *)
(* The input log is produced lazily: every step of the dispatch loop takes *)
(* the next line of the file and, when a handler matches it, the further   *)
(* lines that handler pulls from the same cursor.  The lines one iteration *)
(* consumed are kept in inp: the line the for loop offered to the chain,   *)
(* the body lines read after it, and the lines read after the body (the    *)
(* terminator of the block and anything read beyond it), in file order.    *)
(***************************************************************************)
EXTENDS Integers, Sequences, FiniteSets, TLC

VARIABLES
    pc,        \* "loop": in the for loop; "returned": return runs; "raised": an exception left the function
    err,       \* the exception that left parse_castep_file, "none" otherwise
    runs,      \* the local list runs
    curr_run,  \* the local curr_run: a dict, with the history of how it was opened
    result,    \* the value handed to the caller, meaningful when pc = "returned"
    iter,      \* number of lines the for loop has offered to the dispatch chain
    markers,   \* number of "Run started" lines the dispatch chain has seen
    inp        \* the lines the last iteration consumed, in file order

vars == <<pc, err, runs, curr_run, result, iter, markers, inp>>

----------------------------------------------------------------------------
(* Bounds of the model *)

\* lines offered to the dispatch loop
MaxIter == 3
\* body lines of a block read by get_block
MaxBody == 1
\* lines read by the phonon handler's own look-ahead loop
MaxLook == 1
\* body lines of a Born-charges block
MaxBornLines == 6
\* rows of a Mulliken population block
MaxPopnRows == 2
\* body lines of a stress-tensor block
MaxStressLines == 3
\* tensor rows printed for one mode of a Raman block
MaxRamanRows == 3
\* Raman blocks of one run
MaxRamanBlocks == 1
\* body lines of a magnetic-resonance tensor block
MaxMagresRows == 2
\* lines of an options block after its first group title
MaxOptionLines == 3

----------------------------------------------------------------------------
(* Text tokens and typed values.  A token of the log is text; n is the     *)
(* number it spells, and a negative n is text that spells no number.       *)

Txt(n) == [t |-> "str", n |-> n]

None == [t |-> "None", n |-> 0]

\* float(x) / int(x) succeed on text that spells a number
CanConvert(x) == x.t /= "None" /\ x.n >= 0

\* to_type on one token: the converted value carries the target type
to_type(x, typ) == [t |-> typ, n |-> x.n]

\* to_type on a list or tuple of tokens
to_type_list(s, typ) == [i \in DOMAIN s |-> to_type(s[i], typ)]

CanConvertSeq(s) == \A i \in DOMAIN s : CanConvert(s[i])

\* fix_data_types on an accumulator whose listed fields are sequences
fix_data_types(d, table) ==
    [k \in DOMAIN d |-> IF k \in DOMAIN table THEN to_type_list(d[k], table[k]) ELSE d[k]]

----------------------------------------------------------------------------
(* Lines of the log.  k is what the regular expressions of the dispatch    *)
(* chain recognise in the line, a its label or (species, index) key, n the *)
(* number its numeric tokens spell.                                        *)

Line(k, a, n) == [k |-> k, a |-> a, n |-> n]

\* the lines whose n spells three one-digit numbers, one per column
ThreeColumns == {"StressRow", "RamanRow"}

\* the lines of a block that carry no numeric token
NoNumbers == {"RamanDecor", "RamanDelim"}

\* get_numbers(line): the numeric tokens of the line (three per data row)
get_numbers(l) ==
    IF l.k \in ThreeColumns
    THEN <<Txt(l.n \div 100), Txt((l.n \div 10) % 10), Txt(l.n % 10)>>
            \o (IF l.a = "depol" THEN <<Txt(0)>> ELSE <<>>)
    ELSE IF l.k \in NoNumbers THEN <<>>
    ELSE <<Txt(l.n), Txt(l.n), Txt(l.n)>>

\* line.split() of a row of numbers
Split(l) ==
    IF l.k = "Num3" THEN get_numbers(l)
    ELSE IF l.k \in {"BornAtom", "Atom3"} THEN <<Txt(-1), Txt(1)>> \o get_numbers(l)
    ELSE <<Txt(-1)>>

----------------------------------------------------------------------------
(* Python dicts: a function from the keys present to their values.         *)

EmptyDict == [x \in {} |-> None]

Put(d, k, v) == [x \in DOMAIN d \cup {k} |-> IF x = k THEN v ELSE d[x]]

\* bool(dict)
Truthy(run) == DOMAIN run.d /= {}

HasKey(run, k) == k \in DOMAIN run.d

\* run[k] raises KeyError: a plain dict without the key
Missing(run, k) == ~HasKey(run, k) /\ ~run.dd

\* run[k]: the value, or the list a defaultdict(list) creates for the key
GetItem(run, k) == IF HasKey(run, k) THEN run.d[k] ELSE <<>>

\* run[k] = v
SetItem(run, k, v) == [run EXCEPT !.d = Put(run.d, k, v)]

\* run[k] = [v]: the field assigned a fresh list instead of appended to
AppendItemOverwrite(run, k, v) == SetItem(run, k, <<v>>)

\* run[k].append(v)
AppendItem(run, k, v) == SetItem(run, k, Append(GetItem(run, k), v))

\* history carried with a run: the marker that opened it (0: none), whether
\* the whole-run fix_data_types pass was applied to it, and the force blocks
\* matched while it was current, by banner label, in file order
NoHistory == [marker |-> 0, fixed |-> FALSE, fb |-> EmptyDict]

\* curr_run = {}
InitialRun == [dd |-> FALSE, d |-> EmptyDict, h |-> NoHistory]

\* curr_run = defaultdict(list); curr_run["species_properties"] = defaultdict(dict)
NewRun(m) ==
    [dd |-> TRUE,
     d  |-> Put(EmptyDict, "species_properties", EmptyDict),
     h  |-> [NoHistory EXCEPT !.marker = m]]

----------------------------------------------------------------------------
(* Steps of the dispatch loop *)

NoInput == [h |-> "", line |-> <<>>, body |-> <<>>, tail |-> <<>>, eof |-> FALSE]

Init ==
    /\ pc = "loop"
    /\ err = "none"
    /\ runs = <<>>
    /\ curr_run = InitialRun
    /\ result = <<>>
    /\ iter = 0
    /\ markers = 0
    /\ inp = NoInput

\* the for loop takes a line
CanRead == pc = "loop" /\ iter < MaxIter

\* what an iteration consumed
Consumed(h, line, body, tail, eof) ==
    [h |-> h, line |-> <<line>>, body |-> body, tail |-> tail, eof |-> eof]

\* the handler's lines consumed, with a run marker on the last line it read
\* handed back to the dispatch chain
HandledPushBack(h, line, body, tail, run) ==
    LET marker == tail /= <<>> /\ tail[Len(tail)].k = "RunStarted"
    IN  /\ curr_run' = IF marker THEN NewRun(markers + 1) ELSE run
        /\ runs' = IF marker /\ Truthy(run) THEN Append(runs, run) ELSE runs
        /\ markers' = IF marker THEN markers + 1 ELSE markers
        /\ inp' = Consumed(h, line, body, tail, FALSE)
        /\ iter' = iter + 1
        /\ UNCHANGED <<pc, err, result>>

\* the handler h consumed its lines and left curr_run as run
Handled(h, line, body, tail, run) ==
    /\ curr_run' = run
    /\ inp' = Consumed(h, line, body, tail, FALSE)
    /\ iter' = iter + 1
    /\ UNCHANGED <<pc, err, runs, result, markers>>

\* the exception caught where the block is handled: the loop goes on to the next line
RaiseSwallowed(h, line, body, tail, eof, e) ==
    /\ inp' = Consumed(h, line, body, tail, eof)
    /\ iter' = iter + 1
    /\ UNCHANGED <<pc, err, runs, curr_run, result, markers>>

\* an exception e leaves the handler h, and parse_castep_file with it
Raise(h, line, body, tail, eof, e) ==
    /\ pc' = "raised"
    /\ err' = e
    /\ inp' = Consumed(h, line, body, tail, eof)
    /\ iter' = iter + 1
    /\ UNCHANGED <<runs, curr_run, result, markers>>

\* get_block runs out of input before its end pattern matched
GetBlockEOF(h, line, body) == Raise(h, line, body, <<>>, TRUE, "IOError")

\* if curr_run: runs.append(curr_run)
SealAtMarker(rs, run) == IF Truthy(run) THEN Append(rs, run) ELSE rs

\* "Run started"
RunStarted ==
    /\ CanRead
    /\ runs' = SealAtMarker(runs, curr_run)
    /\ curr_run' = NewRun(markers + 1)
    /\ markers' = markers + 1
    /\ inp' = Consumed("run", Line("RunStarted", "", 0), <<>>, <<>>, FALSE)
    /\ iter' = iter + 1
    /\ UNCHANGED <<pc, err, result>>

\* a line no branch of the chain matches
Unrecognised ==
    /\ CanRead
    /\ Handled("none", Line("Other", "", 0), <<>>, <<>>, curr_run)

\* Build info: "Compiled for" to the next blank line
BuildInfo ==
    /\ CanRead
    /\ \E terminated \in BOOLEAN :
        LET banner == Line("CompiledFor", "", 0)
        IN  IF ~terminated
            THEN GetBlockEOF("build_info", banner, <<>>)
            ELSE Handled("build_info", banner, <<>>, <<Line("Blank", "", 0)>>,
                         SetItem(curr_run, "build_info", <<"summary">>))

EnergyValues == {1, 2}

\* curr_run["energies"].append(to_type(get_numbers(line)[-1], float))
Energies ==
    /\ CanRead
    /\ \E v \in EnergyValues :
        LET l == Line("FinalEnergy", "", v)
        IN  IF Missing(curr_run, "energies")
            THEN Raise("energies", l, <<>>, <<>>, FALSE, "KeyError")
            ELSE Handled("energies", l, <<>>, <<>>,
                         AppendItem(curr_run, "energies", to_type(get_numbers(l)[3], "float")))

----------------------------------------------------------------------------
(* Forces blocks *)

ForceLabels == {"", "Symmetrised "}

ForceBodyLines == {Line("Atom3", "A", 1), Line("Atom3", "A", 2), Line("Other", "", 0)}

\* the bodies get_block can return: up to n lines drawn from alphabet
Bodies(alphabet, n) == UNION {[1..m -> alphabet] : m \in 0..n}

\* ft_guess if (ft_guess := FORCES_BLOCK_RE.search(line).group(1)) else "non-descript"
ForceType(label) == IF label /= "" THEN label ELSE "non-descript"

\* {match.group("spec", "index"): to_type(match.group("x", "y", "z"), float)
\*  for line in block.splitlines() if (match := ATDAT3VEC.search(line))}
AtomVectors(body) ==
    LET atoms == {i \in DOMAIN body : body[i].k = "Atom3"}
        last(key) == CHOOSE i \in atoms :
                        body[i].a = key /\ \A j \in atoms : body[j].a = key => j <= i
    IN  [key \in {body[i].a : i \in atoms} |-> to_type_list(get_numbers(body[last(key)]), "float")]

\* the forces handler with the "forces" mapping created anew for every block
ForcesBlockReset(run, label, body) ==
    SetItem(run, "forces", Put(EmptyDict, ForceType(label), <<AtomVectors(body)>>))

\* the body of the forces branch
ForcesBlock(run, label, body) ==
    LET r1    == IF ~HasKey(run, "forces") THEN SetItem(run, "forces", EmptyDict) ELSE run
        ftype == ForceType(label)
        f     == r1.d["forces"]
        sofar == IF ftype \in DOMAIN f THEN f[ftype] ELSE <<>>
    IN  SetItem(r1, "forces", Put(f, ftype, Append(sofar, AtomVectors(body))))

\* history: one more force block under this banner label
NoteForces(run, label, body) ==
    LET sofar == IF label \in DOMAIN run.h.fb THEN run.h.fb[label] ELSE <<>>
    IN  [run EXCEPT !.h.fb = Put(run.h.fb, label, Append(sofar, body))]

Forces ==
    /\ CanRead
    /\ \E label \in ForceLabels, body \in Bodies(ForceBodyLines, MaxBody), terminated \in BOOLEAN :
        LET banner == Line("ForcesBanner", label, 0)
        IN  IF ~terminated
            THEN GetBlockEOF("forces", banner, body)
            ELSE Handled("forces", banner, body, <<Line("Stars", "", 0)>>,
                         ForcesBlock(NoteForces(curr_run, label, body), label, body))

----------------------------------------------------------------------------
(* Optical permittivity and the efield envelope *)

RowLines == {Line("Num3", "", 1), Line("Num3", "", 2), Line("Other", "", 0)}

\* for line in block.splitlines(): if re.match(3 numbers): curr_run[key].append(to_type(line.split(), float))
AppendRows(run, key, rows) ==
    LET F[i \in 0..Len(rows)] ==
            IF i = 0 THEN run
            ELSE AppendItem(F[i-1], key, to_type_list(Split(rows[i]), "float"))
    IN  F[Len(rows)]

IsRow(l) == l.k = "Num3"

Permittivity ==
    /\ CanRead
    /\ \E body \in Bodies(RowLines, MaxBody), terminated \in BOOLEAN :
        LET banner == Line("OpticalPermittivity", "", 0)
            rows   == SelectSeq(body, IsRow)
        IN  IF ~terminated
            THEN GetBlockEOF("permittivity", banner, body)
            ELSE IF rows /= <<>> /\ Missing(curr_run, "permittivity")
            THEN Raise("permittivity", banner, body, <<Line("Equals", "", 0)>>,
                       FALSE, "KeyError")
            ELSE Handled("permittivity", banner, body, <<Line("Equals", "", 0)>>,
                         AppendRows(curr_run, "permittivity", rows))

\* parse_efield_file: the mapping the electric-field decoder returns for the envelope interior
parse_efield_file(body) ==
    [oscillator_strengths |-> <<>>,
     permittivity |-> [i \in DOMAIN SelectSeq(body, IsRow) |->
                          to_type_list(Split(SelectSeq(body, IsRow)[i]), "float")]]

\* curr_run["oscillator_strengths"] = ...; curr_run["permittivity"] = data["permittivity"]
EfieldBlock(run, body) ==
    LET data == parse_efield_file(body)
    IN  SetItem(SetItem(run, "oscillator_strengths", data.oscillator_strengths),
                "permittivity", data.permittivity)

Efield ==
    /\ CanRead
    /\ \E body \in Bodies(RowLines \ {Line("Other", "", 0)}, MaxBody), terminated \in BOOLEAN :
        LET banner == Line("BeginEfield", "", 0)
        IN  IF ~terminated
            THEN GetBlockEOF("efield", banner, body)
            ELSE Handled("efield", banner, body, <<Line("EndEfield", "", 0)>>,
                         EfieldBlock(curr_run, body))

----------------------------------------------------------------------------
(* Phonon block: the handler reads the region itself, line by line *)

QptValues == {0, 5}

PhononLines ==
    {Line("QptHeader", "", q) : q \in QptValues}
        \cup {Line("Mode", "", 1), Line("PhononDecor", "", 0)}

\* the lines that end a phonon region: none of its patterns matches them
BreakLines == {Line("Other", "", 0), Line("RunStarted", "", 0)}

\* match.group("qpt").split(): the three tokens of the q-point vector
QptOf(l) == <<Txt(l.n), Txt(0), Txt(0)>>

\* qdata = defaultdict(list); qdata["qpt"] = match.group("qpt").split()
NewQdata(l) == Put(EmptyDict, "qpt", QptOf(l))

\* PROCESS_PHONON_RE.match(line).groupdict(): the optional groups did not take part
ModeGroups(l) ==
    [N |-> Txt(l.n), frequency |-> Txt(l.n), irrep |-> None, intensity |-> None,
     active |-> None, raman_intensity |-> None, raman_active |-> None]

\* stack_dict: append each value to the list kept under its name
stack_dict(acc, groups) ==
    [k \in DOMAIN acc \cup DOMAIN groups |->
        IF k \in DOMAIN groups
        THEN Append(IF k \in DOMAIN acc THEN acc[k] ELSE <<>>, groups[k])
        ELSE acc[k]]

QdataTypes ==
    [qpt |-> "float", N |-> "int", frequency |-> "float", intensity |-> "float",
     raman_intensity |-> "float"]

\* process_qdata: drop the columns with no value, then fix the types
process_qdata(qdata) ==
    LET keep == {k \in DOMAIN qdata :
                    k = "qpt" \/ \E i \in DOMAIN qdata[k] : qdata[k][i].t /= "None"}
    IN  fix_data_types([k \in keep |-> qdata[k]], QdataTypes)

\* qdata["qpt"] in (phonon["qpt"] for phonon in curr_run["phonons"])
Stored(run, qpt) ==
    \E i \in DOMAIN GetItem(run, "phonons") : GetItem(run, "phonons")[i]["qpt"] = qpt

\* if qdata["qpt"] and qdata["qpt"] not in (...): curr_run["phonons"].append(process_qdata(qdata))
StoreQdata(st) ==
    IF st.qdata["qpt"] = <<>> THEN st
    ELSE IF Missing(st.run, "phonons") THEN [st EXCEPT !.err = "KeyError"]
    ELSE LET r1 == SetItem(st.run, "phonons", GetItem(st.run, "phonons"))
         IN  IF Stored(r1, st.qdata["qpt"])
             THEN [st EXCEPT !.run = r1]
             ELSE [st EXCEPT !.run = AppendItem(r1, "phonons", process_qdata(st.qdata))]

\* while line := castep_file.readline(): over the lines that do not end the region
PhononLoop(run, header, look) ==
    LET F[i \in 0..Len(look)] ==
            IF i = 0 THEN [run |-> run, qdata |-> NewQdata(header), err |-> "none"]
            ELSE LET st == F[i-1]
                     l  == look[i]
                 IN  IF st.err /= "none" THEN st
                     ELSE IF l.k = "QptHeader"
                          THEN [StoreQdata(st) EXCEPT !.qdata = NewQdata(l)]
                     ELSE IF l.k = "PhononDecor" THEN st
                     ELSE IF l.k = "Mode"
                          THEN [st EXCEPT !.qdata = stack_dict(st.qdata, ModeGroups(l))]
                     ELSE st
    IN  F[Len(look)]

\* the names bound where the raise statement of the phonon loop is evaluated
BoundNames ==
    {"castep_file", "verbose", "runs", "curr_run", "line", "block", "match", "qdata",
     "re", "io", "defaultdict", "process_qdata", "parse_magres_block"}

\* raise IOError(f"Unexpected end of file in {seedname}"): the argument is evaluated first
UnexpectedEOF == IF "seedname" \in BoundNames THEN "IOError" ELSE "NameError"

Phonon ==
    /\ CanRead
    /\ \E q \in QptValues, look \in Bodies(PhononLines, MaxLook),
          end \in BreakLines \cup {Line("EOF", "", 0)} :
        LET header == Line("QptHeader", "", q)
            st     == PhononLoop(curr_run, header, look)
            fin    == StoreQdata(st)
        IN  IF st.err /= "none"
            \* the exception leaves the loop at the line that raised it: look ends there
            THEN /\ PhononLoop(curr_run, header, SubSeq(look, 1, Len(look) - 1)).err = "none"
                 /\ end.k = "EOF"
                 /\ Raise("phonon", header, look, <<>>, FALSE, st.err)
            ELSE IF end.k = "EOF"
            THEN Raise("phonon", header, look, <<>>, TRUE, UnexpectedEOF)
            ELSE IF fin.err /= "none"
            THEN Raise("phonon", header, look, <<end>>, FALSE, fin.err)
            ELSE Handled("phonon", header, look, <<end>>, fin.run)

----------------------------------------------------------------------------
(* Born effective charges: three lines per atom *)

\* the bodies of a Born block: atom lines (species, index, first tensor row)
\* and rows of three numbers; line i spells the number i, the atom line at i
\* names the atom i
BornBodies(n) ==
    UNION {{[i \in 1..m |-> IF i \in S THEN Line("BornAtom", ToString(i), i)
                                       ELSE Line("Num3", "", i)] : S \in SUBSET (1..m)}
           : m \in 0..n}

\* the while loop over lines: born_accum, the number of appends, and the
\* exception that ended it; missing: curr_run["born"] raises KeyError
RECURSIVE BornScan(_, _, _, _, _)
BornScan(lines, i, accum, appends, missing) ==
    IF i > Len(lines) THEN [accum |-> accum, appends |-> appends, err |-> "none"]
    ELSE IF lines[i].k /= "BornAtom" THEN BornScan(lines, i + 1, accum, appends, missing)
    ELSE IF i + 1 > Len(lines) THEN [accum |-> accum, appends |-> appends, err |-> "IndexError"]
    ELSE IF ~CanConvertSeq(Split(lines[i+1]))
         THEN [accum |-> accum, appends |-> appends, err |-> "ValueError"]
    ELSE IF i + 2 > Len(lines) THEN [accum |-> accum, appends |-> appends, err |-> "IndexError"]
    ELSE IF ~CanConvertSeq(Split(lines[i+2]))
         THEN [accum |-> accum, appends |-> appends, err |-> "ValueError"]
    ELSE LET tensor == <<to_type_list(get_numbers(lines[i]), "float"),
                         to_type_list(Split(lines[i+1]), "float"),
                         to_type_list(Split(lines[i+2]), "float")>>
             stored == Put(accum, lines[i].a, tensor)
         IN  IF missing THEN [accum |-> stored, appends |-> appends, err |-> "KeyError"]
             ELSE BornScan(lines, i + 3, stored, appends + 1, missing)

\* born_accum = {}; i = 0; while i < len(lines): ...
BornLoop(run, lines) == BornScan(lines, 1, EmptyDict, 0, Missing(run, "born"))

\* curr_run["born"].append(born_accum) once per atom: every append adds the
\* same dict, which holds all the atoms of the block when the loop ends
BornBlock(run, lines) ==
    LET scan == BornLoop(run, lines)
    IN  IF scan.appends = 0 THEN run
        ELSE SetItem(run, "born",
                     GetItem(run, "born") \o [j \in 1..scan.appends |-> scan.accum])

Born ==
    /\ CanRead
    /\ \E body \in BornBodies(MaxBornLines), terminated \in BOOLEAN :
        LET banner == Line("BornBanner", "", 0)
            scan   == BornLoop(curr_run, body)
        IN  IF ~terminated
            THEN GetBlockEOF("born", banner, body)
            ELSE IF scan.err /= "none"
            THEN Raise("born", banner, body, <<Line("Equals", "", 0)>>, FALSE, scan.err)
            ELSE Handled("born", banner, body, <<Line("Equals", "", 0)>>,
                         BornBlock(curr_run, body))

----------------------------------------------------------------------------
(* Mulliken population analysis *)

\* rows of the block: an atom row, a spin-separated "up:" row, a "dn:" row
PopnLines == {Line("PopnRow", "Si", 1), Line("PopnUp", "Si", 2), Line("PopnDn", "", 1)}

\* what can follow the block in the log (no line: the input ends there)
AfterBlock == {<<>>, <<Line("PopnDn", "", 3)>>, <<Line("Other", "", 0)>>}

\* castep_file.readline(): the next line at the cursor, "" at end of input
readline(after, used) == IF used < Len(after) THEN after[used + 1] ELSE Line("EOF", "", 0)

\* CASTEP_POPN_RE.match(line).groupdict()
PopnGroups(l) ==
    [spec |-> Txt(-1), index |-> Txt(1),
     spin_sep |-> IF l.k = "PopnUp" THEN Txt(-1) ELSE None,
     s |-> Txt(l.n), p |-> Txt(l.n), d |-> Txt(l.n), f |-> Txt(l.n),
     total |-> Txt(l.n), charge |-> Txt(0), spin |-> None]

\* CASTEP_POPN_RE_DN.match(line).groupdict(): the groups labelled_floats names
DnGroups(l) == [s |-> Txt(l.n), p |-> Txt(l.n), d |-> Txt(l.n), f |-> Txt(l.n), total |-> Txt(l.n)]

\* {orb: f"up_{orb}" for orb in (*SHELLS, "total")}
UpAliases == [s |-> "up_s", p |-> "up_p", d |-> "up_d", f |-> "up_f", total |-> "up_total"]

\* add_aliases(mull, aliases, replace=True): the keys renamed
add_aliases(m, aliases) ==
    LET plain   == DOMAIN m \ DOMAIN aliases
        renamed == {aliases[k] : k \in DOMAIN aliases \cap DOMAIN m}
    IN  [k \in plain \cup renamed |->
            IF k \in plain THEN m[k]
            ELSE m[CHOOSE x \in DOMAIN aliases \cap DOMAIN m : aliases[x] = k]]

\* mull.update(groups)
Update(m, groups) ==
    [k \in DOMAIN m \cup DOMAIN groups |-> IF k \in DOMAIN groups THEN groups[k] ELSE m[k]]

PopnTypes ==
    [index |-> "int", s |-> "float", p |-> "float", d |-> "float", f |-> "float",
     total |-> "float", charge |-> "float", spin |-> "float",
     up_s |-> "float", up_p |-> "float", up_d |-> "float", up_f |-> "float", up_total |-> "float",
     dn_s |-> "float", dn_p |-> "float", dn_d |-> "float", dn_f |-> "float", dn_total |-> "float"]

\* fix_data_types on a record of single values; an absent value stays absent
fix_data_types_record(m, table) ==
    [k \in DOMAIN m |->
        IF k \in DOMAIN table /\ m[k].t /= "None" THEN to_type(m[k], table[k]) ELSE m[k]]

\* the spin-separated branch: alias the up values, read the next line at the
\* cursor as the down row, merge it, and recompute the total
SpinSeparated(mull, next) ==
    LET up == add_aliases(mull, UpAliases)
    IN  IF next.k /= "PopnDn" THEN [mull |-> up, err |-> "AttributeError"]
        ELSE LET both == Update(up, DnGroups(next))
             IN  IF ~({"up_total", "dn_total"} \subseteq DOMAIN both)
                 THEN [mull |-> both, err |-> "KeyError"]
                 ELSE [mull |-> Put(both, "total",
                                    [t |-> "float", n |-> both["up_total"].n + both["dn_total"].n]),
                       err  |-> "none"]

\* for line in block.splitlines(): the run, the lines read past the block, the exception
MullikenLoop(run, body, after) ==
    LET F[i \in 0..Len(body)] ==
            IF i = 0 THEN [run |-> run, used |-> 0, err |-> "none"]
            ELSE LET st == F[i-1]
                     l  == body[i]
                 IN  IF st.err /= "none" \/ l.k \notin {"PopnRow", "PopnUp"} THEN st
                     ELSE LET spin == SpinSeparated(PopnGroups(l), readline(after, st.used))
                              mull == IF l.k = "PopnUp" THEN spin.mull ELSE PopnGroups(l)
                              used == IF l.k = "PopnUp" THEN st.used + 1 ELSE st.used
                          IN  IF l.k = "PopnUp" /\ spin.err /= "none"
                              THEN [st EXCEPT !.used = used, !.err = spin.err]
                              ELSE IF Missing(st.run, "mull_popn")
                              THEN [st EXCEPT !.used = used, !.err = "KeyError"]
                              ELSE [st EXCEPT !.used = used,
                                       !.run = AppendItem(st.run, "mull_popn",
                                                          fix_data_types_record(mull, PopnTypes))]
    IN  F[Len(body)]

Mulliken ==
    /\ CanRead
    /\ \E body \in Bodies(PopnLines, MaxPopnRows), after \in AfterBlock, terminated \in BOOLEAN :
        LET banner == Line("PopnHeader", "", 0)
            st     == MullikenLoop(curr_run, body, after)
            tail   == <<Line("Equals", "", 0)>> \o after
        IN  IF ~terminated
            THEN after = <<>> /\ GetBlockEOF("mulliken", banner, body)
            \* after holds the lines the handler read past the block, and no others
            ELSE /\ Len(after) <= st.used
                 /\ IF st.err /= "none"
                    THEN Raise("mulliken", banner, body, tail, st.used > Len(after), st.err)
                    ELSE Handled("mulliken", banner, body, tail, st.run)

----------------------------------------------------------------------------
(* Stress tensor block *)

\* body lines of a stress block: the rows tagged x, y and z, and decoration
StressLines ==
    {Line("StressRow", "x", 123), Line("StressRow", "y", 456), Line("StressRow", "z", 789),
     Line("Other", "", 0)}

\* "*  x" in line
Tagged(l, tag) == l.k = "StressRow" /\ l.a = tag

\* numbers[i:]
Trailing(numbers, i) == SubSeq(numbers, i + 1, Len(numbers))

\* accum = []; for line in block.splitlines(): accum += numbers[0:] / [1:] / [2:]
StressAccum(body) ==
    LET F[i \in 0..Len(body)] ==
            IF i = 0 THEN <<>>
            ELSE LET numbers == get_numbers(body[i])
                 IN  IF Tagged(body[i], "x") THEN F[i-1] \o Trailing(numbers, 0)
                     ELSE IF Tagged(body[i], "y") THEN F[i-1] \o Trailing(numbers, 1)
                     ELSE IF Tagged(body[i], "z") THEN F[i-1] \o Trailing(numbers, 2)
                     ELSE F[i-1]
    IN  F[Len(body)]

\* the stress handler keeping every number of every tagged row
StressBlockFull(run, body) ==
    LET tagged(l) == l.k = "StressRow"
        rows == SelectSeq(body, tagged)
        F[i \in 0..Len(rows)] == IF i = 0 THEN <<>> ELSE F[i-1] \o get_numbers(rows[i])
    IN  SetItem(run, "stress", to_type_list(F[Len(rows)], "float"))

\* curr_run["stress"] = to_type(accum, float)
StressBlock(run, body) == SetItem(run, "stress", to_type_list(StressAccum(body), "float"))

Stress ==
    /\ CanRead
    /\ \E body \in Bodies(StressLines, MaxStressLines), terminated \in BOOLEAN :
        LET banner == Line("StressBanner", "", 0)
        IN  IF ~terminated
            THEN GetBlockEOF("stress", banner, body)
            ELSE Handled("stress", banner, body, <<Line("Stars", "", 0)>>,
                         StressBlock(curr_run, body))

----------------------------------------------------------------------------
(* Raman susceptibility tensors *)

\* the tensors a mode of the block prints, one three-digit row code per row
RamanTensors == {<<100, 20, 3>>, <<123, 456, 789>>}

\* the lines of one mode: its "Mode number" line, k rows of the tensor (the
\* first with the depolarisation ratio as a fourth number), and the closing
\* " +   +" line when the mode is closed
ModeLines(tensor, k, closed) ==
    <<Line("RamanMode", "", 0)>>
        \o [i \in 1..k |-> Line("RamanRow", IF i = 1 THEN "depol" ELSE "",
                                 tensor[((i - 1) % 3) + 1])]
        \o (IF closed THEN <<Line("RamanDelim", "", 0)>> ELSE <<>>)

RamanModes(n) == {ModeLines(t, k, c) : t \in RamanTensors, k \in 0..n, c \in BOOLEAN}

\* block.splitlines()[1:] of a block of one or two modes: the rule under the
\* banner, then the modes
RamanBodies(n) ==
    {<<Line("RamanDecor", "", 0)>> \o m : m \in RamanModes(n)}
        \cup {<<Line("RamanDecor", "", 0)>> \o m1 \o m2 : m1, m2 \in RamanModes(n)}

\* curr_mode = {"tensor": [], "depolarisation": None}
NewMode == Put(Put(EmptyDict, "tensor", <<>>), "depolarisation", None)

\* sum(tensor[i][i] for i in range(3))
TensorTrace(tensor) == [t |-> "float", n |-> tensor[1][1].n + tensor[2][2].n + tensor[3][3].n]

\* the second invariant as Tr(A)^2 - Tr(A^2)
TensorIITraceForm(tensor) ==
    LET tr  == tensor[1][1].n + tensor[2][2].n + tensor[3][3].n
        sq(i) == tensor[i][1].n * tensor[1][i].n + tensor[i][2].n * tensor[2][i].n
                    + tensor[i][3].n * tensor[3][i].n
    IN  [t |-> "float", n |-> tr * tr - (sq(1) + sq(2) + sq(3))]

\* tensor[0][0]*tensor[1][1] + ... - tensor[1][2]*tensor[2][1]
TensorII(tensor) ==
    [t |-> "float",
     n |-> tensor[1][1].n * tensor[2][2].n + tensor[1][1].n * tensor[3][3].n
            + tensor[2][2].n * tensor[3][3].n - tensor[1][2].n * tensor[2][1].n
            - tensor[1][3].n * tensor[3][1].n - tensor[2][3].n * tensor[3][2].n]

\* one line of the for loop over the block
RamanStep(st, l) ==
    LET numbers == get_numbers(l)
    IN  IF st.err /= "none" THEN st
        ELSE IF l.k = "RamanMode"
        THEN [modes |-> IF DOMAIN st.curr /= {} THEN Append(st.modes, st.curr) ELSE st.modes,
              curr  |-> NewMode,
              err   |-> "none"]
        ELSE IF numbers /= <<>>
        THEN IF "tensor" \notin DOMAIN st.curr THEN [st EXCEPT !.err = "KeyError"]
             ELSE LET row == Put(st.curr, "tensor",
                                 Append(st.curr["tensor"],
                                        to_type_list(SubSeq(numbers, 1, 3), "float")))
                  IN  [st EXCEPT !.curr = IF Len(numbers) = 4
                                          THEN Put(row, "depolarisation",
                                                   to_type(numbers[4], "float"))
                                          ELSE row]
        ELSE IF l.k = "RamanDelim"
        THEN IF "tensor" \notin DOMAIN st.curr THEN [st EXCEPT !.err = "KeyError"]
             ELSE IF Len(st.curr["tensor"]) < 3 THEN [st EXCEPT !.err = "IndexError"]
             ELSE [st EXCEPT !.curr = Put(Put(st.curr, "trace", TensorTrace(st.curr["tensor"])),
                                          "II", TensorII(st.curr["tensor"]))]
        ELSE st

\* modes = []; curr_mode = {}; for line in block.splitlines()[1:]: ...; if curr_mode: modes.append(curr_mode)
RamanLoop(body) ==
    LET F[i \in 0..Len(body)] ==
            IF i = 0 THEN [modes |-> <<>>, curr |-> EmptyDict, err |-> "none"]
            ELSE RamanStep(F[i-1], body[i])
        end == F[Len(body)]
    IN  IF end.err = "none" /\ DOMAIN end.curr /= {}
        THEN [end EXCEPT !.modes = Append(end.modes, end.curr)]
        ELSE end

Raman ==
    /\ CanRead
    /\ Len(GetItem(curr_run, "raman")) < MaxRamanBlocks
    /\ \E body \in RamanBodies(MaxRamanRows), terminated \in BOOLEAN :
        LET banner == Line("RamanBanner", "", 0)
            scan   == RamanLoop(body)
        IN  IF ~terminated
            THEN GetBlockEOF("raman", banner, body)
            ELSE IF scan.err /= "none"
            THEN Raise("raman", banner, body, <<Line("Blank", "", 0)>>, FALSE, scan.err)
            ELSE IF Missing(curr_run, "raman")
            THEN Raise("raman", banner, body, <<Line("Blank", "", 0)>>, FALSE, "KeyError")
            ELSE Handled("raman", banner, body, <<Line("Blank", "", 0)>>,
                         AppendItem(curr_run, "raman", scan.modes))

----------------------------------------------------------------------------
(* Magnetic-resonance tensor blocks *)

\* the text of the banner lines, word by word
BannerText ==
    [CS    |-> <<"Chemical", "Shielding", "Tensor">>,
     CSEFG |-> <<"Chemical", "Shielding", "and", "Electric", "Field", "Gradient", "Tensor">>,
     EFG   |-> <<"Electric", "Field", "Gradient", "Tensor">>]

MagresBanners == DOMAIN BannerText

\* re.search(pattern, line) for a pattern of literal words: the words occur
\* in the line, one after the other
Search(pattern, text) ==
    \E i \in 0..(Len(text) - Len(pattern)) : SubSeq(text, i + 1, i + Len(pattern)) = pattern

\* the chain with the field-gradient recognizer tried before the combined one
MagresChainEFGFirst ==
    <<[task |-> 0, pattern |-> <<"Chemical", "Shielding", "Tensor">>],
      [task |-> 2, pattern |-> <<"Electric", "Field", "Gradient", "Tensor">>],
      [task |-> 1, pattern |-> <<"Chemical", "Shielding", "and", "Electric", "Field",
                                 "Gradient", "Tensor">>]>>

\* the three elif branches, in the order the chain tries them
MagresChain ==
    <<[task |-> 0, pattern |-> <<"Chemical", "Shielding", "Tensor">>],
      [task |-> 1, pattern |-> <<"Chemical", "Shielding", "and", "Electric", "Field",
                                 "Gradient", "Tensor">>],
      [task |-> 2, pattern |-> <<"Electric", "Field", "Gradient", "Tensor">>]>>

\* the branches whose start pattern matches the line
Recognizers(l) ==
    {i \in DOMAIN MagresChain : Search(MagresChain[i].pattern, BannerText[l.a])}

\* the task of the first branch that matches: the one that runs
Dispatch(l) ==
    MagresChain[CHOOSE i \in Recognizers(l) : \A j \in Recognizers(l) : i <= j].task

\* the text N/A
NA == [t |-> "str", n |-> -2]

\* rows of the table: the asymmetry column is N/A or a number; other lines
MagresBodyLines ==
    {Line("MagresRow", "N/A", 0), Line("MagresRow", "", 5), Line("Other", "", 0)}

\* the float columns MAGRES_RE[task] names besides asym
MagresColumns(task) ==
    IF task = 0 THEN {"iso", "aniso"}
    ELSE IF task = 1 THEN {"iso", "aniso", "cq", "eta"}
    ELSE {"cq"}

\* curr_re.match(line).groupdict()
MagresGroups(task, l) ==
    [k \in {"spec", "index", "asym"} \cup MagresColumns(task) |->
        IF k = "spec" THEN Txt(-1)
        ELSE IF k = "asym" THEN (IF l.a = "N/A" THEN NA ELSE Txt(l.n))
        ELSE Txt(1)]

MagresTypes ==
    [index |-> "int", iso |-> "float", aniso |-> "float", cq |-> "float", eta |-> "float"]

\* the asymmetry decoded with N/A read as zero
AsymValueZero(dat) == IF dat /= NA THEN to_type(dat, "float") ELSE to_type(Txt(0), "float")

\* float(dat) if dat != "N/A" else None
AsymValue(dat) == IF dat /= NA THEN to_type(dat, "float") ELSE None

\* parse_magres_block(task, inp)
parse_magres_block(task, body) ==
    LET F[i \in 0..Len(body)] ==
            IF i = 0 THEN Put(EmptyDict, "task", task)
            ELSE IF body[i].k = "MagresRow"
                 THEN stack_dict(F[i-1], MagresGroups(task, body[i]))
                 ELSE F[i-1]
        data == fix_data_types(F[Len(body)], MagresTypes)
    IN  IF "asym" \in DOMAIN data
        THEN Put(data, "asym", [i \in DOMAIN data["asym"] |-> AsymValue(data["asym"][i])])
        ELSE data

Magres ==
    /\ CanRead
    /\ \E label \in MagresBanners, body \in Bodies(MagresBodyLines, MaxMagresRows),
          terminated \in BOOLEAN :
        LET banner == Line("MagresBanner", label, 0)
            tail   == <<Line("Equals", "", 0)>>
        IN  IF ~terminated
            THEN GetBlockEOF("magres", banner, body)
            ELSE IF Missing(curr_run, "chem_shield")
            THEN Raise("magres", banner, body, tail, FALSE, "KeyError")
            ELSE Handled("magres", banner, body, tail,
                         AppendItem(curr_run, "chem_shield",
                                    parse_magres_block(Dispatch(banner), body)))

----------------------------------------------------------------------------
(* Options block *)

GroupNames == {"General", "Electronic"}

\* lines of the block: group titles "*** <name> Parameters ***" and "key : value" lines
OptionLines ==
    {Line("GroupTitle", g, 0) : g \in GroupNames}
        \cup {Line("KeyValue", "x", 1), Line("KeyValue", "y", 2)}

\* one line of the for loop over the block
OptionsStep(st, l) ==
    IF l.k = "GroupTitle"
    THEN [opt        |-> IF DOMAIN st.curr_opt /= {}
                         THEN Put(st.opt, st.curr_group, st.curr_opt) ELSE st.opt,
          curr_opt   |-> EmptyDict,
          curr_group |-> l.a]
    ELSE IF l.k = "KeyValue"
    THEN [st EXCEPT !.curr_opt = Put(st.curr_opt, l.a, Txt(l.n))]
    ELSE st

\* opt = {}; curr_opt = {}; curr_group = ""; for line in block.splitlines(): ...
OptionsLoop(block) ==
    LET F[i \in 0..Len(block)] ==
            IF i = 0 THEN [opt |-> EmptyDict, curr_opt |-> EmptyDict, curr_group |-> ""]
            ELSE OptionsStep(F[i-1], block[i])
    IN  F[Len(block)]

\* if opt: curr_run["options"] = opt
OptionsBlock(run, block) ==
    LET opt == OptionsLoop(block).opt
    IN  IF DOMAIN opt /= {} THEN SetItem(run, "options", opt) ELSE run

Options ==
    /\ CanRead
    /\ \E g \in GroupNames, body \in Bodies(OptionLines, MaxOptionLines),
          terminated \in BOOLEAN :
        LET banner == Line("GroupTitle", g, 0)
            tail   == <<Line("Stars", "", 0)>>
        IN  IF ~terminated
            THEN GetBlockEOF("options", banner, body)
            ELSE Handled("options", banner, body, tail,
                         OptionsBlock(curr_run, <<banner>> \o body \o tail))

----------------------------------------------------------------------------
(* End of input *)

WholeRunTypes == [energies |-> "float", solvation |-> "float"]

\* fix_data_types(curr_run, {"energies": float, "solvation": float}); runs.append(curr_run)
SealAtEnd(rs, run) ==
    IF Truthy(run)
    THEN Append(rs, [run EXCEPT !.d = fix_data_types(run.d, WholeRunTypes), !.h.fixed = TRUE])
    ELSE rs

\* the input is exhausted: the for loop ends
EndOfInput ==
    /\ pc = "loop"
    /\ pc' = "returned"
    /\ runs' = SealAtEnd(runs, curr_run)
    /\ result' = runs'
    /\ inp' = [NoInput EXCEPT !.h = "eof", !.eof = TRUE]
    /\ UNCHANGED <<err, curr_run, iter, markers>>

Next ==
    \/ RunStarted
    \/ Unrecognised
    \/ BuildInfo
    \/ Energies
    \/ Forces
    \/ Permittivity
    \/ Efield
    \/ EndOfInput

Spec == Init /\ [][Next]_vars

\* logs of run markers and phonon regions
NextPhonon ==
    \/ RunStarted
    \/ Phonon
    \/ EndOfInput

SpecPhonon == Init /\ [][NextPhonon]_vars

\* logs of run markers and Born-charges blocks
NextBorn ==
    \/ RunStarted
    \/ Born
    \/ EndOfInput

SpecBorn == Init /\ [][NextBorn]_vars

\* logs of run markers and Mulliken population blocks
NextMulliken ==
    \/ RunStarted
    \/ Mulliken
    \/ EndOfInput

SpecMulliken == Init /\ [][NextMulliken]_vars

\* logs of run markers and stress-tensor blocks
NextStress ==
    \/ RunStarted
    \/ Stress
    \/ EndOfInput

SpecStress == Init /\ [][NextStress]_vars

\* logs of run markers and Raman blocks
NextRaman ==
    \/ RunStarted
    \/ Raman
    \/ EndOfInput

SpecRaman == Init /\ [][NextRaman]_vars

\* logs of run markers and magnetic-resonance tensor blocks
NextMagres ==
    \/ RunStarted
    \/ Magres
    \/ EndOfInput

SpecMagres == Init /\ [][NextMagres]_vars

\* logs of run markers and options blocks
NextOptions ==
    \/ RunStarted
    \/ Options
    \/ EndOfInput

SpecOptions == Init /\ [][NextOptions]_vars

----------------------------------------------------------------------------
(* The claims about the dispatch loop, checked under Spec *)

\* the runs the function holds or has handed out
AllRuns == {curr_run} \cup {runs[i] : i \in DOMAIN runs} \cup {result[i] : i \in DOMAIN result}

\* a run as the marker left it: no handler has populated a field
Unpopulated(run) == run.d = NewRun(0).d

\* C1: the result holds one record per "Run started" marker (one fewer only
\* when the final run populated no field), the i-th record being the run the
\* i-th marker opened; lines before the first marker add no record.
C1_OneRecordPerMarker ==
    pc = "returned" =>
        /\ \/ Len(result) = markers
           \/ Len(result) = markers - 1 /\ Unpopulated(curr_run)
        /\ \A i \in DOMAIN result : result[i].h.marker = i

\* C2: a run opened by a marker in which no handler populated a field before
\* the end of input is not appended to the result.
C2_EmptyRunDiscarded ==
    (pc = "returned" /\ markers > 0 /\ Unpopulated(curr_run)) =>
        \A i \in DOMAIN result : result[i].h.marker /= markers

\* C9: every run in the result was sealed with the whole-run type-coercion
\* pass, whether a later marker or the end of input sealed it.
C9_EveryRunCoerced ==
    pc = "returned" => \A i \in DOMAIN result : result[i].h.fixed

IsPrefix(s, t) == Len(s) <= Len(t) /\ \A i \in DOMAIN s : s[i] = t[i]

SeqFields == {"energies", "permittivity", "phonons", "born", "mull_popn"}

\* every element of the fields K of r1 is still in r2, at its place
KeptIn(r1, r2, K) ==
    /\ \A k \in K \cap DOMAIN r1.d : HasKey(r2, k) /\ IsPrefix(r1.d[k], r2.d[k])
    /\ HasKey(r1, "forces") =>
        /\ HasKey(r2, "forces")
        /\ \A kind \in DOMAIN r1.d["forces"] :
            /\ kind \in DOMAIN r2.d["forces"]
            /\ IsPrefix(r1.d["forces"][kind], r2.d["forces"][kind])

\* a step keeps what the fields K of the current run hold: while the run is
\* current, and in the record it is sealed as
AppendOnlyStep(K) ==
    /\ (pc' = "loop" /\ markers' = markers) => KeptIn(curr_run, curr_run', K)
    /\ (markers' > markers /\ Truthy(curr_run)) => KeptIn(curr_run, runs'[Len(runs')], K)
    /\ (pc' = "returned" /\ Truthy(curr_run)) => KeptIn(curr_run, result'[Len(result')], K)

\* C8 as stated: within a run every growable field is append-only and keeps
\* file order.
C8_AppendOnly == [][AppendOnlyStep(SeqFields)]_vars

\* C8 as amended: every growable field other than permittivity is append-only
\* and keeps file order; an efield block replaces permittivity.
C8_AppendOnlyButPermittivity == [][AppendOnlyStep(SeqFields \ {"permittivity"})]_vars

\* two energies appended by two lines of the same run, in file order
C8_Witness ==
    /\ pc = "returned"
    /\ \E i \in DOMAIN result :
        /\ HasKey(result[i], "energies")
        /\ result[i].d["energies"] = <<to_type(Txt(1), "float"), to_type(Txt(2), "float")>>

\* C10: for each force kind, run.forces[kind] holds one mapping per force
\* banner of that kind matched in the run, in file order; an unlabelled
\* banner counts under "non-descript".
C10_ForcesPerBanner ==
    pc /= "raised" =>
        \A r \in AllRuns : \A label \in ForceLabels :
            LET kind   == IF label = "" THEN "non-descript" ELSE label
                blocks == IF label \in DOMAIN r.h.fb THEN r.h.fb[label] ELSE <<>>
                got    == IF HasKey(r, "forces") /\ kind \in DOMAIN r.d["forces"]
                          THEN r.d["forces"][kind] ELSE <<>>
            IN  /\ Len(got) = Len(blocks)
                /\ \A i \in DOMAIN got : got[i] = AtomVectors(blocks[i])

\* a returned run with two unlabelled force blocks
C10_Witness ==
    /\ pc = "returned"
    /\ \E i \in DOMAIN result :
        /\ HasKey(result[i], "forces")
        /\ "non-descript" \in DOMAIN result[i].d["forces"]
        /\ Len(result[i].d["forces"]["non-descript"]) = 2

----------------------------------------------------------------------------
(* The claims about the phonon handler, checked under SpecPhonon *)

\* C3: no phonons sequence holds two records with identical q-point vectors.
C3_NoDuplicateQpt ==
    \A r \in AllRuns :
        LET ph == GetItem(r, "phonons")
        IN  \A i, j \in DOMAIN ph : i /= j => ph[i]["qpt"] /= ph[j]["qpt"]

\* C6: input ending inside the phonon handler's loop raises the End-of-Input
\* error, and nothing is returned.
C6_EndOfInputError ==
    (inp.h = "phonon" /\ inp.eof) => (pc = "raised" /\ err = "IOError" /\ result = <<>>)

----------------------------------------------------------------------------
(* The claims about the Born-charges handler, checked under SpecBorn *)

\* n atoms, three lines each: an atom line followed by two rows
WellFormedBorn(body) ==
    /\ Len(body) > 0
    /\ Len(body) % 3 = 0
    /\ \A i \in DOMAIN body : body[i].k = (IF i % 3 = 1 THEN "BornAtom" ELSE "Num3")

\* C5: a Born block of n atoms (three lines each) adds exactly one mapping to
\* born, with one key per atom, each a tensor of that atom's three lines.
C5_OneMappingPerBlock ==
    [][(inp'.h = "born" /\ pc' = "loop" /\ WellFormedBorn(inp'.body)) =>
        LET body   == inp'.body
            before == GetItem(curr_run, "born")
            after  == GetItem(curr_run', "born")
            added  == after[Len(after)]
        IN  /\ Len(after) = Len(before) + 1
            /\ Cardinality(DOMAIN added) = Len(body) \div 3
            /\ \A i \in DOMAIN body :
                 body[i].k = "BornAtom" =>
                    /\ body[i].a \in DOMAIN added
                    /\ added[body[i].a] = [r \in 1..3 |->
                            [c \in 1..3 |-> to_type(Txt(body[i + r - 1].n), "float")]]
      ]_vars

\* the last iteration handled a Born block in which a row of an atom is not numeric
BornConversionFails ==
    /\ inp.h = "born"
    /\ ~inp.eof
    /\ BornLoop(curr_run, inp.body).err = "ValueError"

----------------------------------------------------------------------------
(* The claim about the Mulliken handler, checked under SpecMulliken *)

\* C4: for a block holding an "up:" row followed by its "dn:" row, the
\* continuation read is the line right after the up row, and the record has
\* up_total, dn_total and a total equal to their sum.
C4_SpinContinuation ==
    (/\ inp.h = "mulliken"
     /\ ~inp.eof
     /\ Len(inp.body) = 2
     /\ inp.body[1].k = "PopnUp"
     /\ inp.body[2].k = "PopnDn") =>
        /\ pc = "loop"
        /\ Len(inp.tail) = 1
        /\ LET got == GetItem(curr_run, "mull_popn")
               rec == got[Len(got)]
           IN  /\ got /= <<>>
               /\ {"up_total", "dn_total", "total"} \subseteq DOMAIN rec
               /\ rec["up_total"] = to_type(Txt(inp.body[1].n), "float")
               /\ rec["dn_total"] = to_type(Txt(inp.body[2].n), "float")
               /\ rec["total"].n = inp.body[1].n + inp.body[2].n

----------------------------------------------------------------------------
(* The claim about the stress handler, checked under SpecStress *)

\* the last iteration handled a stress block with one x, one y and one z row, in that order
StressBlockXYZ ==
    /\ inp.h = "stress"
    /\ pc = "loop"
    /\ LET tagged(l) == l.k = "StressRow"
           rows == SelectSeq(inp.body, tagged)
       IN  /\ Len(rows) = 3
           /\ rows[1].a = "x" /\ rows[2].a = "y" /\ rows[3].a = "z"

\* C11 as stated: after a stress block whose x, y and z lines each carry three
\* numbers, run.stress is a 9-element sequence, the flattened full 3x3 tensor.
C11_StressNine ==
    StressBlockXYZ => (HasKey(curr_run, "stress") /\ Len(curr_run.d["stress"]) = 9)

\* C11 as amended: after such a block run.stress is the 6-element sequence of
\* the upper triangle: the three numbers of the x line, the last two of the y
\* line and the last one of the z line, as floats.
C11_StressUpperTriangle ==
    StressBlockXYZ =>
        LET tagged(l) == l.k = "StressRow"
            rows == SelectSeq(inp.body, tagged)
            col(r, c) == to_type(Txt(IF c = 1 THEN rows[r].n \div 100
                                     ELSE IF c = 2 THEN (rows[r].n \div 10) % 10
                                     ELSE rows[r].n % 10), "float")
        IN  /\ HasKey(curr_run, "stress")
            /\ curr_run.d["stress"] =
                    <<col(1, 1), col(1, 2), col(1, 3), col(2, 2), col(2, 3), col(3, 3)>>

\* a stress block of exactly the rows x, y, z was handled inside a run
C11_Witness ==
    /\ StressBlockXYZ
    /\ markers = 1
    /\ Len(inp.body) = 3

----------------------------------------------------------------------------
(* The claim about the Raman handler, checked under SpecRaman *)

\* the mode whose "Mode number" line is line i of the body prints its three
\* rows and then the closing line
ClosedMode(body, i) ==
    /\ i + 4 <= Len(body)
    /\ body[i].k = "RamanMode"
    /\ \A r \in 1..3 : body[i + r].k = "RamanRow"
    /\ body[i + 4].k = "RamanDelim"

\* the element of row r, column c of the mode at line i, as printed
Printed(body, i, r, c) ==
    IF c = 1 THEN body[i + r].n \div 100
    ELSE IF c = 2 THEN (body[i + r].n \div 10) % 10
    ELSE body[i + r].n % 10

----------------------------------------------------------------------------
(* The claims about the magnetic-resonance blocks, checked under SpecMagres *)

\* the last iteration handled a magnetic-resonance block
MagresHandled == inp.h = "magres" /\ pc = "loop"

\* the record the last block appended
LastShield == curr_run.d["chem_shield"][Len(curr_run.d["chem_shield"])]

\* C13: a row whose asymmetry field is the text N/A is decoded with asym
\* absent (None), not zero and not a conversion error, and the asym values
\* of the other rows of the block are floats, position by position.
C13_AsymAbsent ==
    MagresHandled =>
        LET isRow(l) == l.k = "MagresRow"
            rows == SelectSeq(inp.body, isRow)
        IN  rows /= <<>> =>
                /\ "asym" \in DOMAIN LastShield
                /\ Len(LastShield["asym"]) = Len(rows)
                /\ \A i \in DOMAIN rows :
                     IF rows[i].a = "N/A"
                     THEN LastShield["asym"][i] = None
                     ELSE LastShield["asym"][i] = [t |-> "float", n |-> rows[i].n]

\* a block with an N/A row followed by a numeric row was handled
C13_Witness ==
    /\ MagresHandled
    /\ Len(inp.body) = 2
    /\ inp.body[1] = Line("MagresRow", "N/A", 0)
    /\ inp.body[2] = Line("MagresRow", "", 5)

\* the start patterns of the chain that match the banner the last iteration took
Matching ==
    {i \in 1..3 :
        Search(<<<<"Chemical", "Shielding", "Tensor">>,
                 <<"Chemical", "Shielding", "and", "Electric", "Field", "Gradient", "Tensor">>,
                 <<"Electric", "Field", "Gradient", "Tensor">>>>[i],
               BannerText[inp.line[1].a])}

\* C14 as stated: banners are mutually exclusive: at most one recognizer of
\* the chain matches a line, so the handler that runs does not depend on the
\* order in which they are tried.
C14_BannersExclusive == inp.h = "magres" => Cardinality(Matching) <= 1

\* C14 as amended: banners overlap: the combined shielding and field-gradient
\* banner is also matched by the field-gradient recognizer, and the order of
\* the chain decides: the first recognizer that matches runs, so the record
\* of the combined banner has task 1, the shielding one 0, the gradient one 2.
C14_FirstMatchWins ==
    MagresHandled =>
        /\ Matching /= {}
        /\ \A i \in Matching : LastShield["task"] <= i - 1
        /\ LastShield["task"] + 1 \in Matching
        /\ inp.line[1].a = "CSEFG" => (Matching = {2, 3} /\ LastShield["task"] = 1)

\* a block under the combined banner was handled
C14_Witness ==
    /\ MagresHandled
    /\ inp.line[1].a = "CSEFG"
    /\ Cardinality(Matching) = 2

----------------------------------------------------------------------------
(* The claim about the options handler, checked under SpecOptions *)

\* the group titles of the block, by line
Titles(block) == {i \in DOMAIN block : block[i].k = "GroupTitle"}

\* the "key : value" lines of the group whose title is line i
LinesOf(block, i) ==
    {j \in DOMAIN block :
        /\ j > i
        /\ block[j].k = "KeyValue"
        /\ \A m \in (i + 1)..j : block[m].k /= "GroupTitle"}

\* every group has its own name and at least one "key : value" line
WellFormedOptions(block) ==
    /\ \A i, j \in Titles(block) : block[i].a = block[j].a => i = j
    /\ \A i \in Titles(block) : LinesOf(block, i) /= {}

\* C15: after an options block of n groups, each with at least one
\* "key : value" line, run.options maps each of the n group names to the
\* flat mapping of that group's options: the last group included, and n = 1.
C15_EveryGroupStored ==
    LET block == inp.line \o inp.body
    IN  (inp.h = "options" /\ pc = "loop" /\ WellFormedOptions(block)) =>
            /\ HasKey(curr_run, "options")
            /\ \A i \in Titles(block) :
                 /\ block[i].a \in DOMAIN curr_run.d["options"]
                 /\ DOMAIN curr_run.d["options"][block[i].a]
                        = {block[j].a : j \in LinesOf(block, i)}
                 /\ \A j \in LinesOf(block, i) :
                        curr_run.d["options"][block[i].a][block[j].a].n = block[j].n

----------------------------------------------------------------------------
(* The claim about the shared cursor, checked under SpecPhonon *)

\* the lines the handler of the next iteration pulled from the cursor itself
Pulled == inp'.body \o inp'.tail

\* the line the for loop offers to the chain in this step is a run marker
MarkerOffered == inp'.line /= <<>> /\ inp'.line[1].k = "RunStarted"

\* C16: every line is offered to the dispatch chain at most once, and a line
\* a handler pulled from the cursor is never offered to it: an iteration
\* offers one line however many it consumes, and only an offered marker
\* opens a run; a "Run started" line that ends a phonon region opens none.
C16_PulledLinesNotOffered ==
    [][/\ inp'.h /= "eof" => (iter' = iter + 1 /\ Len(inp'.line) = 1)
       /\ markers' = markers + (IF MarkerOffered THEN 1 ELSE 0)
       /\ (inp'.h = "phonon" /\ \E i \in DOMAIN Pulled : Pulled[i].k = "RunStarted") =>
            /\ runs' = runs
            /\ curr_run'.h.marker = curr_run.h.marker
            /\ markers' = markers
      ]_vars

\* a phonon region of a run ended at a "Run started" line, and the loop goes on
C16_Witness ==
    /\ inp.h = "phonon"
    /\ pc = "loop"
    /\ inp.tail = <<Line("RunStarted", "", 0)>>
    /\ markers = 1
    /\ HasKey(curr_run, "phonons")

====
